---- MODULE Spec2Model ----
(***************************************************************************)
(* Model of the findMeetingTimes mitigation scripts.                       *)
(*                                                                         *)
(*   src/find_meetings.py   batch_attendees, chunk_dates,                  *)
(*                          call_findmeetingtimes, run_mitigation, main    *)
(*   src/create_events.py   create_test_events, main                       *)
(*   src/cleanup_events.py  _fetch_events_for_user, cleanup_test_events,   *)
(*                          main                                           *)
(*                                                                         *)
(* One thread of control runs one of the scripts, or run_mitigation with   *)
(* arguments of the caller's choice; pc is its position.  Every request to *)
(* the remote service is an action that posts it and a later action in     *)
(* which the service answers or the call raises.                           *)
(*                                                                         *)
(* Time is counted in minutes since 2026-01-29T00:00 (the start of the     *)
(* range main probes).  An e-mail address is a tuple of one-character      *)
(* strings, so that split(",") and strip() can be computed.                *)
(***************************************************************************)
EXTENDS Integers, Sequences, FiniteSets, TLC

VARIABLES
    script,          \* the entry point that is running
    environ,         \* os.environ: a function from names to raw values
    pc,              \* position of the single thread of control
    exception,       \* the exception that left the entry point, or "none"
    attendees,       \* run_mitigation argument
    start,           \* run_mitigation / chunk_dates argument
    end,             \* run_mitigation / chunk_dates argument
    batch_size,      \* run_mitigation argument
    days_per_chunk,  \* run_mitigation / chunk_dates argument (days)
    ret,             \* who called chunk_dates
    batches,         \* local of run_mitigation
    chunks,          \* local of chunk_dates, then of its caller
    current,         \* local of chunk_dates
    bi,              \* outer loop position: index into batches
    ci,              \* inner loop position: index into chunks
    result,          \* local of run_mitigation: result of the last call
    results,         \* local of run_mitigation
    successful,      \* local of run_mitigation
    failed,          \* local of run_mitigation
    report,          \* value returned by run_mitigation, or NoReport
    math_total,      \* total_calls computed by show_mitigation_math
    bad_result,      \* main: result of reproduce_bad_gateway
    calls,           \* history: requests posted to the remote service
    responses,       \* history: what the service answered, per request
    inflight,        \* number of posted requests not yet answered
    slots,           \* create_events: local of main
    ai,              \* create_test_events: index into attendees
    si,              \* create_test_events: i of enumerate(slots, start=1)
    created,         \* create_test_events
    errors,          \* create_test_events
    ui,              \* cleanup_test_events: index into user_list
    all_events,      \* _fetch_events_for_user
    next_link,       \* _fetch_events_for_user
    fetched,         \* history: the pages returned to _fetch_events_for_user
    matching_events, \* cleanup_test_events
    mi,              \* cleanup_test_events: index into matching_events
    total_deleted,   \* cleanup_test_events
    total_failed,    \* cleanup_test_events
    total_scanned,   \* cleanup_test_events
    summary          \* the dict create_test_events / cleanup_test_events returns

ctl == <<script, environ>>

args == <<attendees, start, end, batch_size, days_per_chunk>>

chunker == <<ret, chunks, current>>

loop == <<batches, bi, ci, result, results, successful, failed, report>>

mainv == <<math_total, bad_result>>

hist == <<calls, responses, inflight>>

createv == <<slots, ai, si, created, errors, summary>>

cleanv == <<ui, all_events, next_link, fetched, matching_events, mi,
            total_deleted, total_failed, total_scanned>>

vars == <<ctl, pc, exception, args, chunker, loop, mainv, hist, createv,
          cleanv>>

----------------------------------------------------------------------------
(* Bounds of the model *)

\* the longest attendee list passed directly to run_mitigation
MaxAttendees == 3

\* the largest batch_size passed directly to run_mitigation
MaxBatch == 3

\* batch_size ranges over -NegBatch .. MaxBatch
NegBatch == 1

\* end ranges over the whole days 0 .. MaxDay
MaxDay == 3

\* start is one of these whole days
StartDays == {0, 1}

\* days_per_chunk ranges over -NegDays .. MaxDaysPerChunk
MaxDaysPerChunk == 2

NegDays == 1

\* chunk_dates is cut off after this many chunks: with days = 0 the loop
\* never ends, with days < 0 it ends only when current leaves the range of
\* datetime (OverflowError), some 740,000 days before start
MaxChunks == 12

\* create_events.py: num_days of the slots main generates (main passes 60)
CreateNumDays == 1

\* cleanup_events.py: the service lists a calendar in at most this many pages
MaxPages == 2

----------------------------------------------------------------------------
(* Values *)

MinutesPerDay == 1440

MinutesPerHour == 60

NoReport ==
    [total_calls  |-> -1,
     successful   |-> 0,
     failed       |-> 0,
     success_rate |-> [num |-> 0, den |-> 1],
     results      |-> <<>>]

NoResult == [status |-> 0]

\* odata_next_link absent (None)
NoLink == [page |-> 0]

NoSummary == [returned |-> FALSE]

Min(a, b) == IF a < b THEN a ELSE b

Max(a, b) == IF a > b THEN a ELSE b

\* datetime + timedelta(days=days)
timedelta_days(days) == days * MinutesPerDay

\* datetime.isoformat(): the date and time fields of the timestamp
isoformat(t) ==
    [day    |-> t \div MinutesPerDay,
     hour   |-> (t % MinutesPerDay) \div MinutesPerHour,
     minute |-> t % MinutesPerHour]

\* datetime.fromisoformat()
fromisoformat(s) ==
    s.day * MinutesPerDay + s.hour * MinutesPerHour + s.minute

----------------------------------------------------------------------------
(* Python built-ins used by the partitioner *)

\* len(range(lo, hi, step)) for step # 0
range_len(lo, hi, step) ==
    IF step > 0
    THEN IF hi > lo THEN (hi - lo + step - 1) \div step ELSE 0
    ELSE IF lo > hi THEN (lo - hi + (-step) - 1) \div (-step) ELSE 0

\* list(range(lo, hi, step)) for step # 0
range(lo, hi, step) ==
    [k \in 1..range_len(lo, hi, step) |-> lo + (k - 1) * step]

\* the bound of a slice, as Python normalises it
slice_index(i, n) == IF i < 0 THEN Max(n + i, 0) ELSE Min(i, n)

\* s[i:j]
slice(s, i, j) ==
    SubSeq(s, slice_index(i, Len(s)) + 1, slice_index(j, Len(s)))

\* range() raises ValueError when its step is zero
batch_attendees_raises(a, size) == size = 0

\* batch_attendees with the partial last batch lost
batch_attendees_full_only(a, size) ==
    LET starts == range(0, Len(a) - size + 1, size)
    IN  [k \in 1..Len(starts) |-> slice(a, starts[k], starts[k] + size)]

\* [attendees[i:i + batch_size] for i in range(0, len(attendees), batch_size)]
batch_attendees(a, size) ==
    LET starts == range(0, Len(a), size)
    IN  [k \in 1..Len(starts) |-> slice(a, starts[k], starts[k] + size)]

\* concatenation of a list of lists
RECURSIVE Concat(_)
Concat(ss) == IF ss = <<>> THEN <<>> ELSE Head(ss) \o Concat(Tail(ss))

----------------------------------------------------------------------------
(* Configuration: TEST_ATTENDEES *)

Whitespace == {" ", "\t"}

\* os.getenv(name, default)
getenv(name, default) ==
    IF name \in DOMAIN environ THEN environ[name] ELSE default

\* position of the first sep in s at or after i, or 0
RECURSIVE find(_, _, _)
find(s, sep, i) ==
    IF i > Len(s) THEN 0
    ELSE IF s[i] = sep THEN i ELSE find(s, sep, i + 1)

\* s.split(sep)
RECURSIVE split(_, _)
split(s, sep) ==
    LET i == find(s, sep, 1)
    IN  IF i = 0 THEN <<s>>
        ELSE <<SubSeq(s, 1, i - 1)>> \o split(SubSeq(s, i + 1, Len(s)), sep)

RECURSIVE lstrip(_)
lstrip(s) ==
    IF s # <<>> /\ Head(s) \in Whitespace THEN lstrip(Tail(s)) ELSE s

RECURSIVE rstrip(_)
rstrip(s) ==
    IF s # <<>> /\ s[Len(s)] \in Whitespace
    THEN rstrip(SubSeq(s, 1, Len(s) - 1)) ELSE s

\* item.strip()
strip(s) == rstrip(lstrip(s))

\* [item.strip() for item in raw_value.split(",") if item.strip()]
parse_attendees(raw_value) ==
    LET items == split(raw_value, ",")
        keep  == {k \in 1..Len(items) : strip(items[k]) # <<>>}
        RECURSIVE pick(_)
        pick(k) == IF k > Len(items) THEN <<>>
                   ELSE IF k \in keep THEN <<strip(items[k])>> \o pick(k + 1)
                   ELSE pick(k + 1)
    IN  pick(1)

\* the list load_test_attendees builds
load_test_attendees == parse_attendees(getenv("TEST_ATTENDEES", <<>>))

\* load_test_attendees without its check
load_test_attendees_never_raises == FALSE

\* load_test_attendees raises ValueError when the list is empty
load_test_attendees_raises == load_test_attendees = <<>>

\* the raw values of TEST_ATTENDEES the scripts are started with
EnvValues ==
    { <<>>,
      <<" ">>,
      <<",">>,
      <<" ", ",", "\t", ",">>,
      <<"a", "@", "x">>,
      <<" ", "a", "@", "x", " ", ",", "b">>,
      <<"a", ",", ",", "b", " ", "c", ",", "\t">> }

----------------------------------------------------------------------------
(* The remote service *)

\* what awaiting client.me.find_meeting_times.post can do: return a
\* response, or raise (network, deserialisation, 4xx/5xx)
Responses == {"response", "raise"}

StatusOk == 200

StatusError == 500

\* the body posted by call_findmeetingtimes
request_body(a, s, e, duration, max_candidates) ==
    [attendees      |-> a,
     start          |-> s,
     end            |-> e,
     duration       |-> duration,
     max_candidates |-> max_candidates]

\* a handler that catches nothing the call raises
except_nothing(resp) == FALSE

\* except Exception as e: the outcomes of the try block the handler catches
except_Exception(resp) == resp = "raise"

\* an exception that leaves call_findmeetingtimes
call_findmeetingtimes_propagates(resp) ==
    resp = "raise" /\ ~except_Exception(resp)

\* the dict call_findmeetingtimes returns
call_findmeetingtimes_result(resp) ==
    IF resp = "response"
    THEN [status |-> StatusOk]
    ELSE [status |-> StatusError]

----------------------------------------------------------------------------
(* Program constants of find_meetings.py *)

\* show_mitigation_math(25, ...)
MathNumAttendees == 25

\* batch_size=5 in main and test_mitigation_effectiveness
MainBatchSize == 5

\* days_per_chunk=3 in main and test_mitigation_effectiveness
MainDaysPerChunk == 3

\* generate_time_slots(datetime.now(), 30)
MathNumDays == 30

\* slot_minutes: int = 30
DefaultSlotMinutes == 30

\* range(0, 24, 1)
HoursPerDay == 24

\* datetime(2026, 2, 28), in days after datetime(2026, 1, 29)
MitigationEndDay == 30

\* datetime(2026, 12, 30), in days after datetime(2026, 1, 29)
ReproduceEndDay == 335

\* duration=10, max_candidates=1600 in reproduce_bad_gateway
ReproduceDuration == 10

ReproduceMaxCandidates == 1600

\* duration: int = 60, max_candidates: int = 50
DefaultDuration == 60

DefaultMaxCandidates == 50

\* start_date.replace(hour=0, minute=0, second=0, microsecond=0)
midnight(t) == (t \div MinutesPerDay) * MinutesPerDay

\* generate_time_slots(start_date, num_days, slot_minutes)
generate_time_slots(start_date, num_days, slot_minutes) ==
    [k \in 1..(num_days * HoursPerDay) |->
        LET day      == (k - 1) \div HoursPerDay
            hour     == (k - 1) % HoursPerDay
            date     == midnight(start_date) + timedelta_days(day)
            start_dt == date + hour * MinutesPerHour
            end_dt   == start_dt + slot_minutes
        IN  [start |-> isoformat(start_dt), end |-> isoformat(end_dt)]]

\* the values datetime.now() takes in the model
Nows == {0, 2 * MinutesPerDay + 13 * MinutesPerHour + 37}

----------------------------------------------------------------------------
(* Initial states *)

Scripts == {"find_meetings", "run_mitigation", "create_events", "cleanup_events"}

\* the attendee lists passed directly to run_mitigation: a, b, a, b, ...
Roster(n) == [i \in 1..n |-> IF i % 2 = 1 THEN <<"a">> ELSE <<"b">>]

Environs ==
    {<<>>} \cup {[n \in {"TEST_ATTENDEES"} |-> v] : v \in EnvValues}

NoArgs ==
    /\ attendees = <<>>
    /\ start = 0
    /\ end = 0
    /\ batch_size = 0
    /\ days_per_chunk = 0

InitLocals ==
    /\ exception = "none"
    /\ ret = "none"
    /\ batches = <<>>
    /\ chunks = <<>>
    /\ current = 0
    /\ bi = 0
    /\ ci = 0
    /\ result = NoResult
    /\ results = <<>>
    /\ successful = 0
    /\ failed = 0
    /\ report = NoReport
    /\ math_total = 0
    /\ bad_result = NoResult
    /\ calls = <<>>
    /\ responses = <<>>
    /\ inflight = 0
    /\ slots = <<>>
    /\ ai = 0
    /\ si = 0
    /\ created = 0
    /\ errors = 0
    /\ ui = 0
    /\ all_events = <<>>
    /\ next_link = NoLink
    /\ fetched = <<>>
    /\ matching_events = <<>>
    /\ mi = 0
    /\ total_deleted = 0
    /\ total_failed = 0
    /\ total_scanned = 0
    /\ summary = NoSummary

\* python find_meetings.py: main() reads everything from the environment
InitMain ==
    /\ script = "find_meetings"
    /\ environ \in Environs
    /\ pc = "main"
    /\ NoArgs

\* run_mitigation called with arguments of the caller's choice
InitRunMitigation ==
    /\ script = "run_mitigation"
    /\ environ = <<>>
    /\ pc = "run_mitigation"
    /\ \E n \in 0..MaxAttendees : attendees = Roster(n)
    /\ \E d \in StartDays : start = timedelta_days(d)
    /\ \E d \in 0..MaxDay : end = timedelta_days(d)
    /\ batch_size \in (0 - NegBatch)..MaxBatch
    /\ days_per_chunk \in (0 - NegDays)..MaxDaysPerChunk

\* python create_events.py
InitCreate ==
    /\ script = "create_events"
    /\ environ \in Environs
    /\ pc = "create_main"
    /\ NoArgs

\* python cleanup_events.py
InitCleanup ==
    /\ script = "cleanup_events"
    /\ environ \in Environs
    /\ pc = "cleanup_main"
    /\ NoArgs

Init ==
    /\ InitLocals
    /\ (InitMain \/ InitRunMitigation \/ InitCreate \/ InitCleanup)

----------------------------------------------------------------------------
(* chunk_dates: one action per loop iteration *)

\* chunk_end without the clipping to end
chunk_end_unclipped(cur, e, days) == cur + timedelta_days(days)

\* chunk_end = min(current + timedelta(days=days), end)
chunk_end(cur, e, days) == Min(cur + timedelta_days(days), e)

\* while current < end
chunk_dates_continues(cur, e) == cur < e

\* chunks.append((current, chunk_end)); current = chunk_end
chunk_dates_step ==
    /\ pc = "chunk_dates"
    /\ chunk_dates_continues(current, end)
    /\ Len(chunks) < MaxChunks
    /\ chunks' = Append(chunks, <<current, chunk_end(current, end, days_per_chunk)>>)
    /\ current' = chunk_end(current, end, days_per_chunk)
    /\ UNCHANGED <<ctl, args, loop, mainv, hist, pc, exception, ret, createv,
                   cleanv>>

\* return chunks, to show_mitigation_math:
\* total_calls = len(batches) * len(chunks)
chunk_dates_return_math ==
    /\ pc = "chunk_dates"
    /\ ~chunk_dates_continues(current, end)
    /\ ret = "show_mitigation_math"
    /\ math_total' = Len(batches) * Len(chunks)
    /\ pc' = "get_graph_client"
    /\ UNCHANGED <<ctl, args, chunker, loop, hist, exception, bad_result,
                   createv, cleanv>>

\* return chunks, to run_mitigation: results = []; successful = 0; failed = 0
chunk_dates_return_run ==
    /\ pc = "chunk_dates"
    /\ ~chunk_dates_continues(current, end)
    /\ ret = "run_mitigation"
    /\ results' = <<>>
    /\ successful' = 0
    /\ failed' = 0
    /\ bi' = 0
    /\ ci' = 0
    /\ pc' = "for_batch"
    /\ UNCHANGED <<ctl, args, chunker, mainv, hist, exception, batches,
                   result, report, createv, cleanv>>

----------------------------------------------------------------------------
(* run_mitigation *)

\* an entry of the history of posted requests
\* (unit is the position <<bi, ci>> of the loops that posted it)
posted(caller, unit, body) == [caller |-> caller, unit |-> unit, body |-> body]

\* batches = batch_attendees(attendees, batch_size), then the call of
\* chunk_dates(start, end, days_per_chunk)
run_mitigation_enter ==
    /\ pc = "run_mitigation"
    /\ IF batch_attendees_raises(attendees, batch_size)
       THEN /\ exception' = "ValueError"
            /\ pc' = "raised"
            /\ UNCHANGED <<batches, current, chunks, ret>>
       ELSE /\ batches' = batch_attendees(attendees, batch_size)
            /\ current' = start
            /\ chunks' = <<>>
            /\ ret' = "run_mitigation"
            /\ pc' = "chunk_dates"
            /\ UNCHANGED exception
    /\ UNCHANGED <<ctl, args, mainv, hist, bi, ci, result, results,
                   successful, failed, report, createv, cleanv>>

\* the outer loop stopping one batch early
for_batch_stops_early(b, bs) == b < Len(bs) - 1

\* for batch in batches: is there a next batch
for_batch_continues(b, bs) == b < Len(bs)

\* the inner loop stopping one chunk early
for_chunk_stops_early(c, cs) == c < Len(cs) - 1

\* for chunk_start, chunk_end in chunks: is there a next chunk
for_chunk_continues(c, cs) == c < Len(cs)

\* for batch in batches
for_batch ==
    /\ pc = "for_batch"
    /\ IF for_batch_continues(bi, batches)
       THEN /\ bi' = bi + 1
            /\ ci' = 0
            /\ pc' = "for_chunk"
       ELSE /\ pc' = "return"
            /\ UNCHANGED <<bi, ci>>
    /\ UNCHANGED <<ctl, args, chunker, mainv, hist, exception, batches,
                   result, results, successful, failed, report,
                   createv, cleanv>>

\* for chunk_start, chunk_end in chunks
for_chunk ==
    /\ pc = "for_chunk"
    /\ IF for_chunk_continues(ci, chunks)
       THEN /\ ci' = ci + 1
            /\ pc' = "call"
       ELSE /\ pc' = "for_batch"
            /\ UNCHANGED ci
    /\ UNCHANGED <<ctl, args, chunker, mainv, hist, exception, batches, bi,
                   result, results, successful, failed, report,
                   createv, cleanv>>

\* the call given the end of the whole range instead of the end of the chunk
call_unit_open_ended(batch, chunk) ==
    request_body(batch, isoformat(chunk[1]), isoformat(end),
                 DefaultDuration, DefaultMaxCandidates)

\* the arguments run_mitigation passes to call_findmeetingtimes
call_unit(batch, chunk) ==
    request_body(batch, isoformat(chunk[1]), isoformat(chunk[2]),
                 DefaultDuration, DefaultMaxCandidates)

\* the call started without being awaited: the loop goes on at once
call_findmeetingtimes_not_awaited ==
    /\ pc = "call"
    /\ calls' = Append(calls, posted("run_mitigation", <<bi, ci>>,
                                     call_unit(batches[bi], chunks[ci])))
    /\ inflight' = inflight + 1
    /\ pc' = "for_chunk"
    /\ UNCHANGED <<ctl, args, chunker, loop, mainv, exception, responses,
                   createv, cleanv>>

\* result = await call_findmeetingtimes(...): the request is posted and the
\* coroutine is suspended
call_findmeetingtimes ==
    /\ pc = "call"
    /\ calls' = Append(calls, posted("run_mitigation", <<bi, ci>>,
                                     call_unit(batches[bi], chunks[ci])))
    /\ inflight' = inflight + 1
    /\ pc' = "await"
    /\ UNCHANGED <<ctl, args, chunker, loop, mainv, exception, responses,
                   createv, cleanv>>

\* the service answers (or the call raises) and call_findmeetingtimes returns
call_returns ==
    /\ pc = "await"
    /\ \E resp \in Responses :
          /\ responses' = Append(responses, resp)
          /\ IF call_findmeetingtimes_propagates(resp)
             THEN /\ exception' = "Exception"
                  /\ pc' = "raised"
                  /\ UNCHANGED result
             ELSE /\ result' = call_findmeetingtimes_result(resp)
                  /\ pc' = "record"
                  /\ UNCHANGED exception
    /\ inflight' = inflight - 1
    /\ UNCHANGED <<ctl, args, chunker, mainv, batches, bi, ci, results,
                   successful, failed, report, calls, createv, cleanv>>

\* results.insert(0, result)
insert_result(rs, r) == <<r>> \o rs

\* results.append(result)
append_result(rs, r) == Append(rs, r)

\* if result["status"] == 200
is_success(r) == r.status = StatusOk

\* results.append(result); successful += 1 or failed += 1
record_result ==
    /\ pc = "record"
    /\ results' = append_result(results, result)
    /\ IF is_success(result)
       THEN successful' = successful + 1 /\ UNCHANGED failed
       ELSE failed' = failed + 1 /\ UNCHANGED successful
    /\ pc' = "for_chunk"
    /\ UNCHANGED <<ctl, args, chunker, mainv, hist, exception, batches, bi,
                   ci, result, report, createv, cleanv>>

\* successful / len(results) if results else 0, as a fraction
success_rate(succ, rs) ==
    IF rs # <<>> THEN [num |-> succ, den |-> Len(rs)]
    ELSE [num |-> 0, den |-> 1]

\* the dict run_mitigation returns
make_report(rs, succ, fail) ==
    [total_calls  |-> Len(rs),
     successful   |-> succ,
     failed       |-> fail,
     success_rate |-> success_rate(succ, rs),
     results      |-> rs]

\* return {...}
run_mitigation_return ==
    /\ pc = "return"
    /\ report' = make_report(results, successful, failed)
    /\ pc' = IF script = "find_meetings" THEN "compare" ELSE "done"
    /\ UNCHANGED <<ctl, args, chunker, mainv, hist, exception, batches, bi,
                   ci, result, results, successful, failed, createv,
                   cleanv>>

----------------------------------------------------------------------------
(* main of find_meetings.py *)

\* show_mitigation_math(25, batch_size=5, days_per_chunk=3), up to its call
\* of chunk_dates
show_mitigation_math ==
    /\ pc = "main"
    /\ IF load_test_attendees_raises
       THEN /\ exception' = "ValueError"
            /\ pc' = "raised"
            /\ UNCHANGED <<attendees, batch_size, days_per_chunk, batches,
                           start, end, current, chunks, ret>>
       ELSE \E now \in Nows :
            LET math_slots == generate_time_slots(now, MathNumDays,
                                                  DefaultSlotMinutes)
            IN  /\ attendees' = slice(load_test_attendees, 0, MathNumAttendees)
                /\ batch_size' = MainBatchSize
                /\ days_per_chunk' = MainDaysPerChunk
                /\ batches' = batch_attendees(attendees', batch_size')
                /\ start' = fromisoformat(math_slots[1].start)
                /\ end' = fromisoformat(math_slots[Len(math_slots)].end)
                /\ current' = start'
                /\ chunks' = <<>>
                /\ ret' = "show_mitigation_math"
                /\ pc' = "chunk_dates"
                /\ UNCHANGED exception
    /\ UNCHANGED <<ctl, mainv, hist, bi, ci, result, results, successful,
                   failed, report, createv, cleanv>>

\* client = get_graph_client(use_device_code=True): no request is sent
get_graph_client ==
    /\ pc = "get_graph_client"
    /\ pc' = "reproduce_bad_gateway"
    /\ UNCHANGED <<ctl, args, chunker, loop, mainv, hist, exception, createv,
                   cleanv>>

\* reproduce_bad_gateway, up to the await of its single oversized call
reproduce_bad_gateway ==
    /\ pc = "reproduce_bad_gateway"
    /\ IF load_test_attendees_raises
       THEN /\ exception' = "ValueError"
            /\ pc' = "raised"
            /\ UNCHANGED <<calls, inflight>>
       ELSE /\ calls' = Append(calls, posted("reproduce_bad_gateway", <<0, 0>>,
                           request_body(load_test_attendees,
                                        isoformat(0),
                                        isoformat(timedelta_days(ReproduceEndDay)),
                                        ReproduceDuration,
                                        ReproduceMaxCandidates)))
            /\ inflight' = inflight + 1
            /\ pc' = "reproduce_await"
            /\ UNCHANGED exception
    /\ UNCHANGED <<ctl, args, chunker, loop, mainv, responses, createv,
                   cleanv>>

\* the oversized call returns: bad_result
reproduce_returns ==
    /\ pc = "reproduce_await"
    /\ \E resp \in Responses :
          /\ responses' = Append(responses, resp)
          /\ IF call_findmeetingtimes_propagates(resp)
             THEN /\ exception' = "Exception"
                  /\ pc' = "raised"
                  /\ UNCHANGED bad_result
             ELSE /\ bad_result' = call_findmeetingtimes_result(resp)
                  /\ pc' = "test_mitigation_effectiveness"
                  /\ UNCHANGED exception
    /\ inflight' = inflight - 1
    /\ UNCHANGED <<ctl, args, chunker, loop, math_total, calls, createv,
                   cleanv>>

\* test_mitigation_effectiveness: run_mitigation(client, load_test_attendees(),
\* datetime(2026, 1, 29), datetime(2026, 2, 28), batch_size=5,
\* days_per_chunk=3, max_candidates=50)
test_mitigation_effectiveness ==
    /\ pc = "test_mitigation_effectiveness"
    /\ IF load_test_attendees_raises
       THEN /\ exception' = "ValueError"
            /\ pc' = "raised"
            /\ UNCHANGED <<attendees, start, end, batch_size, days_per_chunk>>
       ELSE /\ attendees' = load_test_attendees
            /\ start' = 0
            /\ end' = timedelta_days(MitigationEndDay)
            /\ batch_size' = MainBatchSize
            /\ days_per_chunk' = MainDaysPerChunk
            /\ pc' = "run_mitigation"
            /\ UNCHANGED exception
    /\ UNCHANGED <<ctl, chunker, loop, mainv, hist, createv, cleanv>>

\* [3] COMPARISON: main prints and returns
compare ==
    /\ pc = "compare"
    /\ pc' = "done"
    /\ UNCHANGED <<ctl, args, chunker, loop, mainv, hist, exception, createv,
                   cleanv>>

----------------------------------------------------------------------------
(* create_events.py *)

\* subject_prefix="TEST_502_"
SubjectPrefix == <<"T", "E", "S", "T", "_", "5", "0", "2", "_">>

\* the Event create_test_events posts for attendee and the i-th slot:
\* subject = f"{subject_prefix}{attendee.split('@')[0]}_{i}"
new_event(attendee, i, slot) ==
    [subject |-> <<SubjectPrefix, split(attendee, "@")[1], i>>,
     start   |-> [date_time |-> slot.start, time_zone |-> "UTC"],
     end     |-> [date_time |-> slot.end, time_zone |-> "UTC"]]

\* main of create_events.py, up to the call of create_test_events
create_main ==
    /\ pc = "create_main"
    /\ \E now \in Nows :
          slots' = generate_time_slots(now, CreateNumDays, DefaultSlotMinutes)
    /\ IF load_test_attendees_raises
       THEN /\ exception' = "ValueError"
            /\ pc' = "raised"
            /\ UNCHANGED attendees
       ELSE /\ attendees' = load_test_attendees
            /\ pc' = "create_for_attendee"
            /\ UNCHANGED exception
    /\ created' = 0
    /\ errors' = 0
    /\ ai' = 0
    /\ UNCHANGED <<ctl, start, end, batch_size, days_per_chunk, chunker, loop,
                   mainv, hist, si, summary, cleanv>>

\* for attendee in attendees; return {"created": created, "errors": errors}
create_for_attendee ==
    /\ pc = "create_for_attendee"
    /\ IF ai < Len(attendees)
       THEN /\ ai' = ai + 1
            /\ si' = 0
            /\ pc' = "create_for_slot"
            /\ UNCHANGED summary
       ELSE /\ summary' = [returned |-> TRUE, created |-> created,
                           errors |-> errors]
            /\ pc' = "done"
            /\ UNCHANGED <<ai, si>>
    /\ UNCHANGED <<ctl, exception, args, chunker, loop, mainv, hist, slots,
                   created, errors, cleanv>>

\* for i, slot in enumerate(slots, start=1): build the event and post it
create_for_slot ==
    /\ pc = "create_for_slot"
    /\ IF si < Len(slots)
       THEN /\ si' = si + 1
            /\ calls' = Append(calls, posted("create_test_events", <<ai, si'>>,
                           [user  |-> attendees[ai],
                            event |-> new_event(attendees[ai], si', slots[si'])]))
            /\ inflight' = inflight + 1
            /\ pc' = "create_await"
       ELSE /\ pc' = "create_for_attendee"
            /\ UNCHANGED <<si, calls, inflight>>
    /\ UNCHANGED <<ctl, exception, args, chunker, loop, mainv, responses,
                   slots, ai, created, errors, summary, cleanv>>

\* the post returns (created += 1) or raises (except Exception: errors += 1)
create_returns ==
    /\ pc = "create_await"
    /\ \E resp \in Responses :
          IF resp = "response"
          THEN created' = created + 1 /\ UNCHANGED errors
          ELSE errors' = errors + 1 /\ UNCHANGED created
    /\ inflight' = inflight - 1
    /\ pc' = "create_for_slot"
    /\ UNCHANGED <<ctl, exception, args, chunker, loop, mainv, calls,
                   responses, slots, ai, si, summary, cleanv>>

----------------------------------------------------------------------------
(* cleanup_events.py *)

\* keyword="TEST_502"
Keyword == <<"T", "E", "S", "T", "_", "5", "0", "2">>

\* the subjects of the events the service holds; <<>> is a missing subject
Subjects ==
    [upper   |-> <<"T", "E", "S", "T", "_", "5", "0", "2", "_", "a">>,
     lower   |-> <<"x", " ", "t", "e", "s", "t", "_", "5", "0", "2">>,
     other   |-> <<"L", "u", "n", "c", "h">>,
     missing |-> <<>>]

\* str.lower(), on the characters of the model
lower_char(c) ==
    CASE c = "T" -> "t"
      [] c = "E" -> "e"
      [] c = "S" -> "s"
      [] c = "L" -> "l"
      [] OTHER   -> c

lower(s) == [i \in 1..Len(s) |-> lower_char(s[i])]

\* sub in s
contains(sub, s) ==
    \E i \in 1..(Len(s) - Len(sub) + 1) : SubSeq(s, i, i + Len(sub) - 1) = sub

\* urllib.parse.quote(user_id)
quote_char(c) ==
    CASE c = "@" -> "%40"
      [] c = " " -> "%20"
      [] OTHER   -> c

quote(s) == [i \in 1..Len(s) |-> quote_char(s[i])]

\* an event of page p, at position k of the page
event(p, k, subject) == [id |-> <<p, k>>, subject |-> subject]

\* the lists of events a page p may carry (None is modelled as the empty
\* list: the code tests only the truth value of page.value)
PageValues(p) ==
    { <<>>,
      <<event(p, 1, Subjects.upper)>>,
      <<event(p, 1, Subjects.other), event(p, 2, Subjects.lower),
        event(p, 3, Subjects.missing)>> }

\* the links page p may carry: none, or the link to page p + 1
PageLinks(p) ==
    {NoLink} \cup (IF p < MaxPages THEN {[page |-> p + 1]} ELSE {})

\* what awaiting send_async for page p can do: raise, return None, or
\* return a page
FetchOutcomes(p) ==
    {[kind |-> "raise"]}
    \cup {[kind |-> "page",
           page |-> [is_none |-> TRUE, value |-> <<>>,
                     odata_next_link |-> NoLink]]}
    \cup {[kind |-> "page",
           page |-> [is_none |-> FALSE, value |-> v, odata_next_link |-> l]] :
             v \in PageValues(p), l \in PageLinks(p)}

\* _extend_events(page): if page and page.value: all_events.extend(page.value)
extend_events(all, page) ==
    IF ~page.is_none /\ page.value # <<>> THEN all \o page.value ELSE all

\* the link of the page lost: the loop never follows it
get_next_link_dropped(page) == NoLink

\* getattr(events_page, "odata_next_link", None); None and an empty link are
\* both NoLink, since the loop tests only the truth value of next_link
get_next_link(page) ==
    IF page.is_none THEN NoLink ELSE page.odata_next_link

\* [e for e in all_events if e.subject and keyword_lower in e.subject.lower()]
matching(all, keyword) ==
    SelectSeq(all, LAMBDA e : e.subject # <<>>
                              /\ contains(lower(keyword), lower(e.subject)))

\* main of cleanup_events.py, up to the loop of cleanup_test_events
cleanup_main ==
    /\ pc = "cleanup_main"
    /\ IF load_test_attendees_raises
       THEN /\ exception' = "ValueError"
            /\ pc' = "raised"
            /\ UNCHANGED attendees
       ELSE /\ attendees' = load_test_attendees
            /\ pc' = "cleanup_for_user"
            /\ UNCHANGED exception
    /\ total_deleted' = 0
    /\ total_failed' = 0
    /\ total_scanned' = 0
    /\ ui' = 0
    /\ UNCHANGED <<ctl, start, end, batch_size, days_per_chunk, chunker, loop,
                   mainv, hist, createv, all_events, next_link, fetched,
                   matching_events, mi>>

\* for user_id in user_list: _fetch_events_for_user requests the first page;
\* after the loop, return {"deleted": ..., "failed": ..., "scanned": ...}
cleanup_for_user ==
    /\ pc = "cleanup_for_user"
    /\ IF ui < Len(attendees)
       THEN /\ ui' = ui + 1
            /\ all_events' = <<>>
            /\ next_link' = NoLink
            /\ fetched' = <<>>
            /\ calls' = Append(calls, posted("_fetch_events_for_user", <<ui', 1>>,
                           [method |-> "GET", user |-> quote(attendees[ui']),
                            page |-> 1]))
            /\ inflight' = inflight + 1
            /\ pc' = "fetch_await"
            /\ UNCHANGED summary
       ELSE /\ summary' = [returned |-> TRUE, deleted |-> total_deleted,
                           failed |-> total_failed, scanned |-> total_scanned]
            /\ pc' = "done"
            /\ UNCHANGED <<ui, all_events, next_link, fetched, calls,
                           inflight>>
    /\ UNCHANGED <<ctl, exception, args, chunker, loop, mainv, responses,
                   slots, ai, si, created, errors, matching_events, mi,
                   total_deleted, total_failed, total_scanned>>

\* the page request returns a page, or raises into the handler of
\* cleanup_test_events (except Exception: print)
fetch_returns ==
    /\ pc = "fetch_await"
    /\ \E out \in FetchOutcomes(IF next_link = NoLink THEN 1 ELSE next_link.page) :
          IF out.kind = "raise"
          THEN /\ responses' = Append(responses, "raise")
               /\ pc' = "cleanup_for_user"
               /\ UNCHANGED <<all_events, next_link, fetched>>
          ELSE /\ responses' = Append(responses, "response")
               /\ all_events' = extend_events(all_events, out.page)
               /\ next_link' = get_next_link(out.page)
               /\ fetched' = Append(fetched, out.page)
               /\ pc' = "fetch_while"
    /\ inflight' = inflight - 1
    /\ UNCHANGED <<ctl, exception, args, chunker, loop, mainv, calls,
                   createv, ui, matching_events, mi, total_deleted,
                   total_failed, total_scanned>>

\* while next_link: request the next page; otherwise return all_events to
\* cleanup_test_events, which filters them
fetch_while ==
    /\ pc = "fetch_while"
    /\ IF next_link # NoLink
       THEN /\ calls' = Append(calls, posted("_fetch_events_for_user",
                           <<ui, next_link.page>>,
                           [method |-> "GET", user |-> quote(attendees[ui]),
                            page |-> next_link.page]))
            /\ inflight' = inflight + 1
            /\ pc' = "fetch_await"
            /\ UNCHANGED <<total_scanned, matching_events, mi>>
       ELSE /\ IF all_events = <<>>
               THEN /\ pc' = "cleanup_for_user"
                    /\ UNCHANGED <<total_scanned, matching_events, mi>>
               ELSE /\ total_scanned' = total_scanned + Len(all_events)
                    /\ matching_events' = matching(all_events, Keyword)
                    /\ mi' = 0
                    /\ pc' = "cleanup_for_event"
            /\ UNCHANGED <<calls, inflight>>
    /\ UNCHANGED <<ctl, exception, args, chunker, loop, mainv, responses,
                   createv, ui, all_events, next_link, fetched,
                   total_deleted, total_failed>>

\* for event in matching_events: request the delete
cleanup_for_event ==
    /\ pc = "cleanup_for_event"
    /\ IF mi < Len(matching_events)
       THEN /\ mi' = mi + 1
            /\ calls' = Append(calls, posted("cleanup_test_events", <<ui, mi'>>,
                           [method |-> "DELETE", user |-> attendees[ui],
                            event_id |-> matching_events[mi'].id]))
            /\ inflight' = inflight + 1
            /\ pc' = "delete_await"
       ELSE /\ pc' = "cleanup_for_user"
            /\ UNCHANGED <<mi, calls, inflight>>
    /\ UNCHANGED <<ctl, exception, args, chunker, loop, mainv, responses,
                   createv, ui, all_events, next_link, fetched,
                   matching_events, total_deleted, total_failed,
                   total_scanned>>

\* the delete returns (total_deleted += 1) or raises (total_failed += 1)
delete_returns ==
    /\ pc = "delete_await"
    /\ \E resp \in Responses :
          /\ responses' = Append(responses, resp)
          /\ IF resp = "response"
             THEN total_deleted' = total_deleted + 1 /\ UNCHANGED total_failed
             ELSE total_failed' = total_failed + 1 /\ UNCHANGED total_deleted
    /\ inflight' = inflight - 1
    /\ pc' = "cleanup_for_event"
    /\ UNCHANGED <<ctl, exception, args, chunker, loop, mainv, calls,
                   createv, ui, all_events, next_link, fetched,
                   matching_events, mi, total_scanned>>

----------------------------------------------------------------------------
(* Specification *)

Next ==
    \/ show_mitigation_math
    \/ get_graph_client
    \/ reproduce_bad_gateway
    \/ reproduce_returns
    \/ test_mitigation_effectiveness
    \/ compare
    \/ run_mitigation_enter
    \/ chunk_dates_step
    \/ chunk_dates_return_math
    \/ chunk_dates_return_run
    \/ for_batch
    \/ for_chunk
    \/ call_findmeetingtimes
    \/ call_returns
    \/ record_result
    \/ run_mitigation_return
    \/ create_main
    \/ create_for_attendee
    \/ create_for_slot
    \/ create_returns
    \/ cleanup_main
    \/ cleanup_for_user
    \/ fetch_returns
    \/ fetch_while
    \/ cleanup_for_event
    \/ delete_returns

Spec == Init /\ [][Next]_vars

\* the single thread runs whenever it can, and every awaited call returns
\* or raises
FairSpec == Spec /\ WF_vars(Next)

----------------------------------------------------------------------------
(* Properties *)

\* the requests posted by run_mitigation, in the order posted
RunCalls == SelectSeq(calls, LAMBDA c : c.caller = "run_mitigation")

\* the answers to the requests of run_mitigation, in the order received
RunResponses ==
    SubSeq(responses, Len(calls) - Len(RunCalls) + 1, Len(responses))

\* batch_attendees has returned batches for the current attendees
BatchesComputed == ret # "none" /\ pc # "run_mitigation"

\* chunk_dates has returned chunks for the current start and end
ChunksReturned == ret # "none" /\ pc \notin {"chunk_dates", "run_mitigation"}

\* run_mitigation has returned its report
RunFinished == report # NoReport

\* C1: for a non-empty attendee list and batch_size > 0, the batches
\* concatenate to the list, every batch but the last has batch_size
\* elements and the last has 1..batch_size; 25 attendees in batches of 5
\* give 5 batches of 5.
C1_BatchAttendeesPartitions ==
    /\ (BatchesComputed /\ attendees # <<>> /\ batch_size > 0) =>
          /\ batches # <<>>
          /\ Concat(batches) = attendees
          /\ \A k \in 1..(Len(batches) - 1) : Len(batches[k]) = batch_size
          /\ Len(batches[Len(batches)]) \in 1..batch_size
    /\ LET p == batch_attendees(Roster(MathNumAttendees), MainBatchSize)
       IN  /\ Len(p) = 5
           /\ \A k \in 1..Len(p) : Len(p[k]) = 5
           /\ Concat(p) = Roster(MathNumAttendees)

C1_Witness ==
    /\ BatchesComputed
    /\ batch_size > 1
    /\ Len(batches) >= 2
    /\ Len(batches[Len(batches)]) < batch_size

\* C2: for start < end and days > 0, chunk_dates returns a non-empty list of
\* chunks: the first starts at start, each ends where the next starts, each
\* has start < end, none ends after end, the last ends at end; an interval
\* no longer than the chunk duration gives the one chunk (start, end).
C2_ChunkDatesCover ==
    (ChunksReturned /\ start < end /\ days_per_chunk > 0) =>
        /\ chunks # <<>>
        /\ chunks[1][1] = start
        /\ \A i \in 1..(Len(chunks) - 1) : chunks[i][2] = chunks[i + 1][1]
        /\ \A i \in 1..Len(chunks) :
              chunks[i][1] < chunks[i][2] /\ chunks[i][2] <= end
        /\ chunks[Len(chunks)][2] = end
        /\ (end - start <= timedelta_days(days_per_chunk)
               => chunks = << <<start, end>> >>)

C2_Witness ==
    /\ ChunksReturned
    /\ script = "run_mitigation"
    /\ days_per_chunk > 0
    /\ Len(chunks) >= 2
    /\ chunks[Len(chunks)][2] - chunks[Len(chunks)][1]
          < timedelta_days(days_per_chunk)

\* C3: run_mitigation posts one request per (batch, chunk) pair: no pair is
\* ever posted twice, and when it returns every pair has been posted exactly
\* once, with that batch and that chunk, whatever the calls answered; the
\* count is len(batches) * len(chunks), the number show_mitigation_math
\* announces.
C3_OneCallPerUnit ==
    script \in {"find_meetings", "run_mitigation"} =>
    LET rc == RunCalls
    IN  /\ \A i, j \in 1..Len(rc) : rc[i].unit = rc[j].unit => i = j
        /\ RunFinished =>
              /\ Len(rc) = Len(batches) * Len(chunks)
              /\ \A b \in 1..Len(batches), c \in 1..Len(chunks) :
                    \E i \in 1..Len(rc) :
                        /\ rc[i].unit = <<b, c>>
                        /\ rc[i].body = call_unit(batches[b], chunks[c])
              /\ script = "find_meetings" => Len(rc) = math_total

C3_Witness ==
    /\ RunFinished
    /\ Len(batches) >= 2
    /\ Len(chunks) >= 2
    /\ \E i, j \in 1..Len(RunResponses) :
          RunResponses[i] = "raise" /\ RunResponses[j] = "response"

\* C4: the requests are posted batch by batch and, within a batch, chunk by
\* chunk; the i-th result is the outcome of the i-th request, and the report
\* carries the results in that order.
C4_PartitionMajorOrder ==
    script \in {"find_meetings", "run_mitigation"} =>
    LET rc == RunCalls
        rr == RunResponses
    IN  /\ \A i \in 1..Len(rc) :
              /\ Len(chunks) > 0
              /\ rc[i].unit = << ((i - 1) \div Len(chunks)) + 1,
                                 ((i - 1) % Len(chunks)) + 1 >>
        /\ Len(results) <= Len(rr)
        /\ \A i \in 1..Len(results) :
              results[i] = call_findmeetingtimes_result(rr[i])
        /\ RunFinished =>
              /\ report.results = results
              /\ Len(results) = Len(rc)

C4_Witness ==
    /\ RunFinished
    /\ Len(batches) >= 2
    /\ Len(chunks) >= 2
    /\ RunResponses[1] = "raise"
    /\ RunResponses[2] = "response"
    /\ RunResponses[Len(RunResponses)] = "raise"

\* the number of calls of run_mitigation that raised
RECURSIVE count_raised(_)
count_raised(rs) ==
    IF rs = <<>> THEN 0
    ELSE (IF Head(rs) = "raise" THEN 1 ELSE 0) + count_raised(Tail(rs))

\* C5: whichever calls fail, no exception leaves run_mitigation, and the
\* report has one result per call unit, total_calls = len(results),
\* successful + failed = total_calls, failed = the number of failed calls and
\* success_rate = successful / total_calls (0 when there was no call).
C5_FailureIsolation ==
    script \in {"find_meetings", "run_mitigation"} =>
    /\ RunCalls # <<>> => exception = "none" /\ pc # "raised"
    /\ RunFinished =>
          /\ report.total_calls = Len(report.results)
          /\ report.total_calls = Len(batches) * Len(chunks)
          /\ report.total_calls = Len(RunCalls)
          /\ report.successful + report.failed = report.total_calls
          /\ report.failed = count_raised(RunResponses)
          /\ report.success_rate.den > 0
          /\ IF report.total_calls > 0
             THEN report.success_rate.num * report.total_calls
                     = report.successful * report.success_rate.den
             ELSE report.success_rate.num = 0

C5_Witness ==
    /\ RunFinished
    /\ report.total_calls >= 4
    /\ report.failed = report.total_calls
    /\ report.success_rate.num = 0

\* C6: at most one request of run_mitigation is in flight, and a request is
\* posted only when every earlier one has been answered and its result
\* recorded.
C6_OneCallInFlight ==
    script \in {"find_meetings", "run_mitigation"} =>
        /\ inflight \in {0, 1}
        /\ inflight = 1 => pc \in {"await", "reproduce_await"}
        /\ pc = "call" =>
              /\ inflight = 0
              /\ Len(results) = Len(RunCalls)
              /\ Len(RunResponses) = Len(RunCalls)

C6_Witness ==
    /\ pc = "call"
    /\ Len(results) >= 2
    /\ RunResponses[1] = "raise"

\* TEST_ATTENDEES is missing, blank, or made of separators and whitespace
BlankAttendees ==
    LET raw == getenv("TEST_ATTENDEES", <<>>)
    IN  \A i \in 1..Len(raw) : raw[i] \in Whitespace \cup {","}

\* C7: with a missing or blank TEST_ATTENDEES each script stops with the
\* ValueError of load_test_attendees at its first use of the list: no request
\* is ever posted and nothing is returned.
C7_EmptyAttendeesAbort ==
    (script \in {"find_meetings", "create_events", "cleanup_events"}
        /\ BlankAttendees) =>
        /\ load_test_attendees = <<>>
        /\ calls = <<>>
        /\ inflight = 0
        /\ pc \in {"main", "create_main", "cleanup_main", "raised"}
        /\ pc = "raised" => exception = "ValueError"
        /\ report = NoReport
        /\ summary = NoSummary

C7_Witness ==
    /\ script = "cleanup_events"
    /\ "TEST_ATTENDEES" \in DOMAIN environ
    /\ Len(environ["TEST_ATTENDEES"]) >= 4
    /\ BlankAttendees
    /\ pc = "raised"
    /\ exception = "ValueError"

\* C8 (as claimed): run_mitigation called with batch_size <= 0 (and
\* otherwise usable arguments) stops with an error in batch_attendees: it
\* never gets a list of batches and posts nothing.
C8_NonPositiveBatchSizeRejected ==
    (script = "run_mitigation" /\ batch_size <= 0
        /\ attendees # <<>> /\ start < end /\ days_per_chunk > 0) =>
        /\ pc \in {"run_mitigation", "raised"}
        /\ calls = <<>>
        /\ report = NoReport

\* C9 (as claimed): run_mitigation called with start >= end (and otherwise
\* usable arguments) stops with an error in chunk_dates: chunk_dates never
\* returns a list and no report is produced.
C9_EmptyIntervalRejected ==
    (script = "run_mitigation" /\ start >= end
        /\ attendees # <<>> /\ batch_size > 0 /\ days_per_chunk > 0) =>
        /\ pc \in {"run_mitigation", "chunk_dates", "raised"}
        /\ report = NoReport

\* run_mitigation is entered with batch_size > 0, days_per_chunk > 0 and
\* start < end
ValidStart ==
    /\ pc = "run_mitigation"
    /\ batch_size > 0
    /\ days_per_chunk > 0
    /\ start < end

\* run_mitigation has returned a report covering every call unit
Completed ==
    /\ pc \in {"compare", "done"}
    /\ exception = "none"
    /\ RunFinished
    /\ report.total_calls = Len(batches) * Len(chunks)
    /\ Len(RunResponses) = Len(batches) * Len(chunks)
    /\ inflight = 0

\* C10: once run_mitigation has started with valid arguments, and given that
\* every call returns or raises, it returns a report after every call unit
\* has been processed.
C10_RunsToCompletion == ValidStart ~> Completed

C10_Witness ==
    /\ script = "run_mitigation"
    /\ Completed
    /\ batch_size > 0
    /\ days_per_chunk > 0
    /\ Len(batches) >= 2
    /\ Len(chunks) >= 2
    /\ RunResponses[1] = "raise"
    /\ RunResponses[Len(RunResponses)] = "response"

----------------------------------------------------------------------------
(* Properties of cleanup_events.py *)

\* the page requests _fetch_events_for_user has posted for the current user
FetchCalls ==
    SelectSeq(calls, LAMBDA c : c.caller = "_fetch_events_for_user"
                                  /\ c.unit[1] = ui)

\* the page carries a next-page link
HasLink(page) == ~page.is_none /\ page.odata_next_link # NoLink

\* the items of the pages, in page order
PageItems(pages) ==
    Concat([k \in 1..Len(pages) |->
               IF pages[k].is_none THEN <<>> ELSE pages[k].value])

\* _fetch_events_for_user is running for the current user
Fetching ==
    script = "cleanup_events" /\ pc \in {"fetch_await", "fetch_while"}

\* one request per page: the first for page 1, every later one for the page
\* the link of the page before names, and the items collected are those of
\* the pages fetched, in page order
FetchFollowsLinks ==
    Fetching =>
        LET rq == FetchCalls
        IN  /\ Len(rq) = Len(fetched) + (IF pc = "fetch_await" THEN 1 ELSE 0)
            /\ Len(rq) >= 1
            /\ rq[1].body.page = 1
            /\ \A k \in 2..Len(rq) :
                  /\ HasLink(fetched[k - 1])
                  /\ rq[k].body.page = fetched[k - 1].odata_next_link.page
            /\ all_events = PageItems(fetched)

\* _fetch_events_for_user returns only after a page without a link, and
\* returns all_events as collected
FetchReturnsAtLastPage ==
    (pc = "fetch_while" /\ pc' # "fetch_await") =>
        /\ ~HasLink(fetched[Len(fetched)])
        /\ calls' = calls
        /\ all_events' = all_events

\* C11: _fetch_events_for_user requests the first page and then the page each
\* next-page link names, one request per page; it stops exactly when a page
\* has no link and returns the items of every page fetched, in page order.
C11_FetchFollowsNextLinks ==
    [](FetchFollowsLinks) /\ [][FetchReturnsAtLastPage]_vars

\* two pages were fetched, both with items, and the events of both were
\* returned to cleanup_test_events
C11_Witness ==
    /\ script = "cleanup_events"
    /\ pc = "cleanup_for_event"
    /\ Len(fetched) = 2
    /\ HasLink(fetched[1])
    /\ fetched[1].value # <<>>
    /\ fetched[2].value # <<>>
    /\ all_events = fetched[1].value \o fetched[2].value
    /\ Len(FetchCalls) = 2

\* the positions in the history of the calls of this kind that ended this way
Outcomes(method, resp) ==
    {k \in 1..Len(responses) :
        calls[k].body.method = method /\ responses[k] = resp}

\* cleanup_test_events has returned its summary
CleanupReturned ==
    script = "cleanup_events" /\ pc = "done" /\ summary.returned

\* C12 (as claimed): when cleanup_test_events returns, the calendar of every
\* user has been requested, every call that raised, fetch or delete, is
\* counted in 'failed', and deleted + failed is the number of deletes that
\* succeeded plus the number of calls that failed.
C12_EveryFailureCounted ==
    CleanupReturned =>
        LET deleted   == Cardinality(Outcomes("DELETE", "response"))
            failures  == Cardinality(Outcomes("GET", "raise"))
                           + Cardinality(Outcomes("DELETE", "raise"))
        IN  /\ \A u \in 1..Len(attendees) :
                  \E k \in 1..Len(calls) :
                      calls[k].body.method = "GET" /\ calls[k].unit = <<u, 1>>
            /\ summary.failed = failures
            /\ summary.deleted + summary.failed = deleted + failures

----------------------------------------------------------------------------
(* Properties of the requests of run_mitigation *)

\* b is a contiguous, order-preserving part of a
IsSlice(b, a) ==
    \E i \in 1..(Len(a) - Len(b) + 1) : b = SubSeq(a, i, i + Len(b) - 1)

\* the length in minutes of the window a request asks for
WindowLength(body) == fromisoformat(body.end) - fromisoformat(body.start)

\* the request stays within the arguments of the run
WithinRun(body) ==
    /\ body.attendees # <<>>
    /\ Len(body.attendees) <= batch_size
    /\ IsSlice(body.attendees, attendees)
    /\ start <= fromisoformat(body.start)
    /\ fromisoformat(body.start) < fromisoformat(body.end)
    /\ fromisoformat(body.end) <= end
    /\ WindowLength(body) <= timedelta_days(days_per_chunk)

\* C13: every request run_mitigation posts carries a non-empty part of the
\* attendee list of at most batch_size attendees and a window inside
\* [start, end] of at most days_per_chunk days; duration and max_candidates
\* are the same in all requests of the run.
C13_CallsWithinBounds ==
    script \in {"find_meetings", "run_mitigation"} =>
        LET rc == RunCalls
        IN  \A k \in 1..Len(rc) :
                /\ WithinRun(rc[k].body)
                /\ rc[k].body.duration = rc[1].body.duration
                /\ rc[k].body.max_candidates = rc[1].body.max_candidates

\* a run has posted requests with a full and with a partial batch, and with
\* a full and with a clipped window
C13_Witness ==
    /\ script = "run_mitigation"
    /\ RunFinished
    /\ LET rc == RunCalls
       IN  /\ \E k \in 1..Len(rc) : Len(rc[k].body.attendees) = batch_size
           /\ \E k \in 1..Len(rc) :
                 Len(rc[k].body.attendees) \in 1..(batch_size - 1)
           /\ \E k \in 1..Len(rc) :
                 WindowLength(rc[k].body) = timedelta_days(days_per_chunk)
           /\ \E k \in 1..Len(rc) :
                 WindowLength(rc[k].body) \in
                     1..(timedelta_days(days_per_chunk) - 1)

----------------------------------------------------------------------------
(* Properties of the loop of chunk_dates *)

\* a step that is one iteration of the loop of chunk_dates
ChunkDatesIteration ==
    pc = "chunk_dates" /\ pc' = "chunk_dates" /\ Len(chunks') = Len(chunks) + 1

\* C14 (as claimed): for start < end and any integer days, zero and negative
\* included (and otherwise usable arguments), every iteration of the loop of
\* chunk_dates moves current strictly forward and not beyond end, so that
\* the loop ends with current = end.
C14_ChunkDatesAdvances ==
    [][(ChunkDatesIteration /\ start < end
           /\ attendees # <<>> /\ batch_size > 0) =>
          (current < current' /\ current' <= end)]_vars

====
